---- MODULE Spec2Model ----
(***************************************************************************)
(* RotN (src/RotN.py): a synapse component of a GPU circuit simulator.     *)
(* Construction resolves the numeric types, allocates the dense input      *)
(* buffers, compiles the `update` kernel and fixes its launch geometry;    *)
(* run_step enqueues the retrievals and the kernel launch on a stream; the *)
(* device runs the stream in issue order and the kernel's lanes cover      *)
(* [0, num_comps) with a grid-stride loop.                                 *)
(***************************************************************************)
EXTENDS Integers, Sequences, FiniteSets, Bags, TLC

(***************************************************************************)
(* Bounds of the model.                                                    *)
(***************************************************************************)
MaxN == 2
MaxVal == 2
MaxLen == 2
MaxSteps == 2
MaxMP == 2
MaxDest == 1
MaxDt == 1
MaxComps == 2
MaxKernelN == 4
MaxGrid == 3
MaxBlock == 3
MaxGeomN == 1540

(***************************************************************************)
(* Program constants.                                                      *)
(***************************************************************************)
BlockSize == 256
GridFactor == 6
IntBits == 32

\* class attributes, src/RotN.py:16-18
accesses == <<"V", "Vd">>
updates == <<"I">>
params == <<"weight">>

Range(s) == {s[j] : j \in 1..Len(s)}
Min(a, b) == IF a <= b THEN a ELSE b

\* numpy dtypes a caller may hand in; float16 has no C type in dtype_to_ctype
DTypes == {"float32", "float64", "float16"}
NoCType == "unmapped"

\* pycuda.tools.dtype_to_ctype as used at src/RotN.py:98 (raises on an
\* unmapped dtype, modelled by the value NoCType)
dtype_to_ctype(d) ==
    CASE d = "float32" -> "float"
      [] d = "float64" -> "double"
      [] OTHER -> NoCType

\* np.dtype(d).char, src/RotN.py:104
dtype_char(d) ==
    CASE d = "float32" -> "f"
      [] d = "float64" -> "d"
      [] OTHER -> "e"

\* a memory cell that was allocated (garray.empty) and never written
Uninit == 0
Vals == 1..MaxVal
Cells == Vals \cup {Uninit}

\* garray.empty(n): n cells of unspecified content
garray_empty(n) == [j \in 1..n |-> Uninit]

\* the largest int of the kernel (two's complement on IntBits bits)
IntMax == (2 ^ (IntBits - 2) - 1) + 2 ^ (IntBits - 2)

\* a + b in the kernel's int arithmetic, for a, b in 0..IntMax: the sum wraps
\* around past IntMax
IntAdd(a, b) ==
    IF a > IntMax - b THEN (a - IntMax - 1) + (b - IntMax - 1) ELSE a + b

(***************************************************************************)
(* get_update_template, src/RotN.py:67-95: the kernel source is the        *)
(* template with the five type placeholders substituted; the text that     *)
(* does not depend on the types is the same in every expansion.            *)
(***************************************************************************)
TemplateKeys == {"dt", "V", "Vd", "weight", "I"}
get_update_template(type_dict) == [k \in TemplateKeys |-> type_dict[k]]

\* parameter list of the kernel, src/RotN.py:73-75
KernelParams == <<"num_comps", "dt", "steps", "g_V", "g_Vd", "g_weight", "g_I">>

(***************************************************************************)
(* get_update_func, src/RotN.py:97-108.                                    *)
(***************************************************************************)
\* dtypes built at src/RotN.py:47-52
BuildDtypes(self_dtype, in_dtype) ==
    [k \in {"dt"} \cup Range(accesses) \cup Range(params) \cup Range(updates) |->
        IF k \in Range(accesses) THEN in_dtype[k] ELSE self_dtype]

\* line 98-99: the resolved types, plus the 'fletter' entry
TypeDict(dtypes) ==
    [k \in DOMAIN dtypes \cup {"fletter"} |->
        IF k = "fletter"
        THEN (IF dtype_to_ctype(dtypes[params[1]]) = "float" THEN "f" ELSE "")
        ELSE dtype_to_ctype(dtypes[k])]

\* line 98 raises when some dtype has no C type
TypesResolve(dtypes) == \A k \in DOMAIN dtypes : dtype_to_ctype(dtypes[k]) # NoCType

\* line 103-104: the prepared argument format
NumPointers(type_dict) == Cardinality(DOMAIN type_dict) - 2

ArgFormat(dtypes) ==
    <<"i", dtype_char(dtypes["dt"]), "i">> \o
        [j \in 1..NumPointers(TypeDict(dtypes)) |-> "P"]

\* line 106-107: the grid size
GridSizeAlt(num_comps, mp) == Min(GridFactor * mp, num_comps \div BlockSize + 1)
GridSize(num_comps, mp) ==
    Min(GridFactor * mp, (num_comps - 1) \div BlockSize + 1)

\* the function object get_update_func returns; `module` identifies the
\* SourceModule it was taken from
get_update_func(dtypes, num_comps, mp, module) ==
    [module |-> module,
     source |-> get_update_template(TypeDict(dtypes)),
     argfmt |-> ArgFormat(dtypes),
     block |-> <<BlockSize, 1, 1>>,
     grid |-> <<GridSize(num_comps, mp), 1>>]

NoFunc ==
    [module |-> 0, source |-> [k \in TemplateKeys |-> NoCType], argfmt |-> <<>>,
     block |-> <<0, 1, 1>>, grid |-> <<0, 1>>]


(***************************************************************************)
(* State.                                                                  *)
(***************************************************************************)
VARIABLES
    mp_count,        \* cuda.Context.get_device().MULTIPROCESSOR_COUNT
    access_buffers,  \* the upstream buffers: access name -> [dtype, data]
    comps,           \* the component objects (self), by component id
    status,          \* per component id: "none", "ok" (constructed), "failed"
    resources,       \* per component id: device resources its constructor allocated, in order
    compiled,        \* every SourceModule compilation so far: [by, source]
    mem,             \* device memory: pointer -> array
    stream,          \* every operation issued on the ordering token, in issue order
    executed,        \* how many operations of the stream the device has started
    kernel,          \* the kernel launch the device is running, if any
    writes,          \* bag of <<lane, index>> stores of the running launch
    calls,           \* per component id: run_step calls made so far
    retrieved,       \* per component id and access: the retrieval that last filled inputs[k]
    done             \* the launches that have completed, in order

vars ==
    <<mp_count, access_buffers, comps, status, resources, compiled, mem, stream,
      executed, kernel, writes, calls, retrieved, done>>

AccessSet == Range(accesses)

InPtr(c, k) == <<"inputs", c, k>>
ParamPtr(c, k) == <<"params", c, k>>
DestPtr(p) == <<"dest", p, "I">>
NullPtr == <<"null", 0, "">>

NoSelf ==
    [num_comps |-> 0, dtype |-> "float32", nsteps |-> 0, dt |-> 0, ddt |-> 0,
     in_dtype |-> [k \in AccessSet |-> "float32"], update_func |-> NoFunc]

Idle ==
    [state |-> "idle", c |-> 0, step |-> 0, func |-> NoFunc, gridDim |-> 0,
     blockDim |-> 0, num_comps |-> 0, dt |-> 0, steps |-> 0, g_V |-> NullPtr,
     g_Vd |-> NullPtr, g_weight |-> NullPtr, g_I |-> NullPtr, lane |-> <<>>]

NoRetrieval == [step |-> 0, up |-> <<>>]

\* the upstream data a scheduler may hold for one access: any length up to
\* MaxLen, neighbouring cells different, MaxVal generations of values
UpData == {[j \in 1..n |-> 1 + ((g + j) % MaxVal)] : n \in 1..MaxLen, g \in Vals}

(***************************************************************************)
(* __init__, src/RotN.py:20-53.  The caller hands in the parameter array   *)
(* (dtype wdt, values w), the upstream buffers and dt.  `rfail` is whether *)
(* get_retrieve_buffer_func (inherited, not in src/) itself rejects an     *)
(* access dtype that has no C type; if it does not, line 98 does.          *)
(***************************************************************************)
Unmapped(k) == dtype_to_ctype(access_buffers[k].dtype) = NoCType

\* lines 37-39: one garray.empty per access, before any type is resolved
InputAllocs == [j \in 1..Len(accesses) |-> <<"inputs", accesses[j]>>]

\* lines 41-45: one retrieval function per access, up to the first that raises
RetrieveAllocs(rfail) ==
    LET bad == {j \in 1..Len(accesses) : rfail /\ Unmapped(accesses[j])}
        n == IF bad = {} THEN Len(accesses)
             ELSE (CHOOSE j \in bad : \A j2 \in bad : j <= j2) - 1
    IN  [j \in 1..n |-> <<"retrieve_func", accesses[j]>>]

RetrieveRaises(rfail) == \E k \in AccessSet : rfail /\ Unmapped(k)

SelfDtypes(wdt) == BuildDtypes(wdt, [k \in AccessSet |-> access_buffers[k].dtype])

RotN_init(c, wdt, w, dt, rfail) ==
    /\ status[c] = "none"
    /\ rfail => \E k \in AccessSet : Unmapped(k)
    /\ LET num_comps == Len(w)
           nsteps == 1
           dtypes == SelfDtypes(wdt)
           allocs == InputAllocs \o RetrieveAllocs(rfail)
           fails == RetrieveRaises(rfail) \/ ~TypesResolve(dtypes)
           func == get_update_func(dtypes, num_comps, mp_count, Len(compiled) + 1)
       IN  IF fails
           THEN /\ status' = [status EXCEPT ![c] = "failed"]
                /\ resources' = [resources EXCEPT ![c] = allocs]
                /\ UNCHANGED <<comps, compiled, mem>>
           ELSE /\ status' = [status EXCEPT ![c] = "ok"]
                /\ resources' = [resources EXCEPT ![c] = allocs \o <<<<"update_func", "update">>>>]
                /\ compiled' = Append(compiled, [by |-> c, source |-> func.source])
                /\ comps' = [comps EXCEPT ![c] =
                       [num_comps |-> num_comps, dtype |-> wdt, nsteps |-> nsteps,
                        dt |-> dt, ddt |-> dt \div nsteps,
                        in_dtype |-> [k \in AccessSet |-> access_buffers[k].dtype],
                        update_func |-> func]]
                /\ mem' = [q \in DOMAIN mem |->
                       IF q = ParamPtr(c, params[1]) THEN w
                       ELSE IF \E k \in AccessSet : q = InPtr(c, k)
                            THEN garray_empty(num_comps)
                            ELSE mem[q]]
    /\ UNCHANGED <<mp_count, access_buffers, stream, executed, kernel, writes,
                   calls, retrieved, done>>

(***************************************************************************)
(* run_step, src/RotN.py:55-65.                                            *)
(***************************************************************************)
IntArg(n) == [kind |-> "i", int |-> n, ptr |-> NullPtr]
ScalarArg(n) == [kind |-> "s", int |-> n, ptr |-> NullPtr]
PtrArg(q) == [kind |-> "P", int |-> 0, ptr |-> q]

RetrieveOp(c, k, t) ==
    [op |-> "retrieve", c |-> c, k |-> k, step |-> t, func |-> NoFunc,
     grid |-> <<0, 1>>, block |-> <<0, 1, 1>>, args |-> <<>>]

\* lines 57-58: one retrieval per access, in the order of self.inputs
Retrievals(c, t) == [j \in 1..Len(accesses) |-> RetrieveOp(c, accesses[j], t)]

\* lines 62-65: the arguments of the launch
LaunchArgsSwapped(c, update_pointers) ==
    <<IntArg(comps[c].num_comps), ScalarArg(comps[c].ddt * 1000), IntArg(comps[c].nsteps)>>
    \o [j \in 1..Len(params) |-> PtrArg(ParamPtr(c, params[j]))]
    \o [j \in 1..Len(accesses) |-> PtrArg(InPtr(c, accesses[j]))]
    \o [j \in 1..Len(updates) |-> PtrArg(update_pointers[updates[j]])]
LaunchArgs(c, update_pointers) ==
    <<IntArg(comps[c].num_comps), ScalarArg(comps[c].ddt * 1000), IntArg(comps[c].nsteps)>>
    \o [j \in 1..Len(accesses) |-> PtrArg(InPtr(c, accesses[j]))]
    \o [j \in 1..Len(params) |-> PtrArg(ParamPtr(c, params[j]))]
    \o [j \in 1..Len(updates) |-> PtrArg(update_pointers[updates[j]])]

\* lines 60-61: the launch uses the function, grid and block stored at construction
LaunchFuncRebuilt(c) ==
    get_update_func(SelfDtypes(comps[c].dtype), comps[c].num_comps, mp_count,
                    Len(compiled) + 1)
LaunchFunc(c) == comps[c].update_func

LaunchOp(c, t, update_pointers) ==
    [op |-> "launch", c |-> c, k |-> "", step |-> t, func |-> LaunchFunc(c),
     grid |-> LaunchFunc(c).grid, block |-> LaunchFunc(c).block,
     args |-> LaunchArgs(c, update_pointers)]

\* lines 57-65: what one call issues on the token, in order; the launch is
\* left out when prepared_async_call raises
StepOpsLaunchFirst(c, t, launch, packs) ==
    (IF packs THEN <<launch>> ELSE <<>>) \o Retrievals(c, t)
StepOps(c, t, launch, packs) ==
    Retrievals(c, t) \o (IF packs THEN <<launch>> ELSE <<>>)

\* prepared_async_call packs the arguments by the prepared format and raises
\* when their number differs from it
PackOK(op) == Len(op.args) = Len(op.func.argfmt)

run_step(c, p) ==
    /\ status[c] = "ok"
    /\ calls[c] < MaxSteps
    /\ LET t == calls[c] + 1
           launch == LaunchOp(c, t, [k \in Range(updates) |-> DestPtr(p)])
       IN  stream' = stream \o StepOps(c, t, launch, PackOK(launch))
    /\ calls' = [calls EXCEPT ![c] = @ + 1]
    /\ UNCHANGED <<mp_count, access_buffers, comps, status, resources, compiled, mem,
                   executed, kernel, writes, retrieved, done>>


(***************************************************************************)
(* The device: it runs the operations of the stream one after another, in  *)
(* issue order (the ordering token st of run_step).                        *)
(***************************************************************************)
HeadOp == stream[executed + 1]

\* retrieve_buffer(k, st), src/RotN.py:58 (inherited; src/ passes it no
\* length and has no failure path): instance j's cell of inputs[k] receives
\* the upstream value for j; a cell with no upstream value keeps its content
RetrieveInto(old, up) ==
    [j \in 1..Len(old) |-> IF j <= Len(up) THEN up[j] ELSE old[j]]

ExecRetrieve ==
    /\ kernel.state = "idle"
    /\ executed < Len(stream)
    /\ HeadOp.op = "retrieve"
    /\ LET c == HeadOp.c
           k == HeadOp.k
           up == access_buffers[k].data
       IN  /\ mem' = [mem EXCEPT ![InPtr(c, k)] = RetrieveInto(@, up)]
           /\ retrieved' = [retrieved EXCEPT ![c][k] = [step |-> HeadOp.step, up |-> up]]
    /\ executed' = executed + 1
    /\ UNCHANGED <<mp_count, access_buffers, comps, status, resources, compiled,
                   stream, kernel, writes, calls, done>>

(***************************************************************************)
(* The kernel `update`, src/RotN.py:73-92.  A lane is a pair <<blockIdx.x, *)
(* threadIdx.x>>; a lane whose tid is not below num_comps never enters the *)
(* loop and is left out of `lane`.                                         *)
(***************************************************************************)
Lanes(gridDim, blockDim) == (0..(gridDim - 1)) \X (0..(blockDim - 1))

\* line 77
TidNoBlock(l, blockDim) == l[2]
Tid(l, blockDim) == l[2] + l[1] * blockDim

\* line 78
TotalThreads(gridDim, blockDim) == gridDim * blockDim

\* line 90
KernelValueAlt(V, Vd, weight) == V * V * weight
KernelValue(V, Vd, weight) == V * Vd * weight

\* line 90, the store into g_I[i]
KernelStoreAcc(old, val) == old + val
KernelStore(old, val) == val

\* line 84, the loop's increment
NextIndex(i, total_threads) == IntAdd(i, total_threads)

\* the arguments bound to the kernel's parameters, by position
Bound(args, name) ==
    LET j == CHOOSE j \in 1..Len(KernelParams) : KernelParams[j] = name
    IN  args[j]

StartKernel(c, t, func, gridDim, blockDim, num_comps, dt, steps, g_V, g_Vd, g_weight, g_I) ==
    [state |-> "run", c |-> c, step |-> t, func |-> func, gridDim |-> gridDim,
     blockDim |-> blockDim, num_comps |-> num_comps, dt |-> dt, steps |-> steps,
     g_V |-> g_V, g_Vd |-> g_Vd, g_weight |-> g_weight, g_I |-> g_I,
     lane |-> [l \in {l \in Lanes(gridDim, blockDim) : Tid(l, blockDim) < num_comps} |->
                  Tid(l, blockDim)]]

ExecLaunch ==
    /\ kernel.state = "idle"
    /\ executed < Len(stream)
    /\ HeadOp.op = "launch"
    /\ kernel' = StartKernel(HeadOp.c, HeadOp.step, HeadOp.func, HeadOp.grid[1],
                     HeadOp.block[1], Bound(HeadOp.args, "num_comps").int,
                     Bound(HeadOp.args, "dt").int, Bound(HeadOp.args, "steps").int,
                     Bound(HeadOp.args, "g_V").ptr, Bound(HeadOp.args, "g_Vd").ptr,
                     Bound(HeadOp.args, "g_weight").ptr, Bound(HeadOp.args, "g_I").ptr)
    /\ writes' = EmptyBag
    /\ executed' = executed + 1
    /\ UNCHANGED <<mp_count, access_buffers, comps, status, resources, compiled,
                   mem, stream, calls, retrieved, done>>

\* one iteration of the loop of lines 84-91 by lane l
LaneStep(l) ==
    /\ kernel.state = "run"
    /\ l \in DOMAIN kernel.lane
    /\ kernel.lane[l] < kernel.num_comps
    /\ LET i == kernel.lane[l]
           V == mem[kernel.g_V][i + 1]
           Vd == mem[kernel.g_Vd][i + 1]
           weight == mem[kernel.g_weight][i + 1]
       IN  /\ mem' = [mem EXCEPT ![kernel.g_I][i + 1] =
                  KernelStore(@, KernelValue(V, Vd, weight))]
           /\ writes' = writes (+) SetToBag({<<l, i>>})
           /\ kernel' = [kernel EXCEPT !.lane[l] =
                  NextIndex(i, TotalThreads(kernel.gridDim, kernel.blockDim))]
    /\ UNCHANGED <<mp_count, access_buffers, comps, status, resources, compiled,
                   stream, executed, calls, retrieved, done>>

\* the launch completes when every lane has left its loop
KernelEnd ==
    /\ kernel.state = "run"
    /\ \A l \in DOMAIN kernel.lane : kernel.lane[l] >= kernel.num_comps
    /\ done' = Append(done,
           [c |-> kernel.c, step |-> kernel.step, num_comps |-> kernel.num_comps,
            gridDim |-> kernel.gridDim, blockDim |-> kernel.blockDim,
            V |-> mem[kernel.g_V], Vd |-> mem[kernel.g_Vd],
            weight |-> mem[kernel.g_weight],
            I |-> SubSeq(mem[kernel.g_I], 1, kernel.num_comps),
            upV |-> retrieved[kernel.c]["V"], upVd |-> retrieved[kernel.c]["Vd"],
            writes |-> writes])
    /\ kernel' = Idle
    /\ UNCHANGED <<mp_count, access_buffers, comps, status, resources, compiled,
                   mem, stream, executed, writes, calls, retrieved>>

\* the external scheduler replaces the data of an upstream buffer; it does so
\* between steps, when the work issued on the token has drained
UpstreamWrite(k, data) ==
    /\ data # access_buffers[k].data
    /\ executed = Len(stream)
    /\ kernel.state = "idle"
    /\ access_buffers' = [access_buffers EXCEPT ![k].data = data]
    /\ UNCHANGED <<mp_count, comps, status, resources, compiled, mem, stream,
                   executed, kernel, writes, calls, retrieved, done>>

(***************************************************************************)
(* Specifications.                                                         *)
(***************************************************************************)
Pointers(cs) ==
    {InPtr(c, k) : c \in cs, k \in AccessSet}
        \cup {ParamPtr(c, params[1]) : c \in cs}
        \cup {DestPtr(p) : p \in 1..MaxDest}

\* the state before any component is constructed
InitFor(cs) ==
    /\ comps = [c \in cs |-> NoSelf]
    /\ status = [c \in cs |-> "none"]
    /\ resources = [c \in cs |-> <<>>]
    /\ compiled = <<>>
    /\ mem = [q \in Pointers(cs) |-> IF q[1] = "dest" THEN garray_empty(MaxN) ELSE <<>>]
    /\ stream = <<>>
    /\ executed = 0
    /\ kernel = Idle
    /\ writes = EmptyBag
    /\ calls = [c \in cs |-> 0]
    /\ retrieved = [c \in cs |-> [k \in AccessSet |-> NoRetrieval]]
    /\ done = <<>>

\* the parameter arrays of n cells a caller may hand in: any values, or (for
\* large n) the all-ones array of the test launcher
WeightArrays(n, unit) == IF unit THEN {[j \in 1..n |-> 1]} ELSE [1..n -> Vals]

Construct(Ns, unit) ==
    \E c \in {c \in DOMAIN comps : status[c] = "none"} :
        \E wdt \in DTypes, n \in Ns, dt \in 1..MaxDt, rfail \in BOOLEAN :
            \E w \in WeightArrays(n, unit) : RotN_init(c, wdt, w, dt, rfail)

Step == \E c \in DOMAIN comps, p \in 1..MaxDest : run_step(c, p)

Lane == \E l \in DOMAIN kernel.lane : LaneStep(l)

Upstream == \E k \in AccessSet, data \in UpData : UpstreamWrite(k, data)

(***************************************************************************)
(* Spec: one component through its whole life, on a device with one        *)
(* multiprocessor (with num_comps <= MaxN the grid is one block whatever   *)
(* the multiprocessor count).  The caller passes the same token st to      *)
(* every run_step, so all operations go to one in-order stream, and the    *)
(* scheduler rewrites the upstream buffers only between steps.             *)
(***************************************************************************)
Init ==
    /\ mp_count = 1
    /\ access_buffers \in [AccessSet -> [dtype : DTypes, data : UpData]]
    /\ InitFor({1})

Next ==
    \/ Construct(1..MaxN, FALSE)
    \/ Step
    \/ ExecRetrieve
    \/ ExecLaunch
    \/ Lane
    \/ KernelEnd
    \/ Upstream

Spec == Init /\ [][Next]_vars

(***************************************************************************)
(* SpecBuild: MaxComps components constructed in one process, on any       *)
(* device and upstream types.                                              *)
(***************************************************************************)
InitBuild ==
    /\ mp_count \in 1..MaxMP
    /\ access_buffers \in [AccessSet -> [dtype : DTypes, data : {<<1>>}]]
    /\ InitFor(1..MaxComps)

NextBuild == Construct(1..MaxN, FALSE)

SpecBuild == InitBuild /\ [][NextBuild]_vars

(***************************************************************************)
(* SpecGeom: the construction of one component of any size up to MaxGeomN. *)
(***************************************************************************)
InitGeom ==
    /\ mp_count \in 1..MaxMP
    /\ access_buffers = [k \in AccessSet |-> [dtype |-> "float32", data |-> <<1>>]]
    /\ InitFor({1})

NextGeom == Construct(1..MaxGeomN, TRUE)

SpecGeom == InitGeom /\ [][NextGeom]_vars

(***************************************************************************)
(* SpecKernel: one launch of the kernel on arrays of num_comps cells, with *)
(* any grid and block size (gridDim and blockDim are inputs of the kernel).*)
(***************************************************************************)
\* the documented scenario: V = [1,2,3], Vd = [4,5,6], weight = [1,1,1]
ScenarioArrays == <<<<1, 2, 3>>, <<4, 5, 6>>, <<1, 1, 1>>>>

\* the arrays of one launch: every V; Vd with neighbouring cells different and
\* weight constant, in every generation of values (each cell meets every triple
\* of values); and the documented scenario
KernelArrays(n) ==
    ([1..n -> Vals]
        \X {[j \in 1..n |-> 1 + ((g + j) % MaxVal)] : g \in Vals}
        \X {[j \in 1..n |-> v] : v \in Vals})
        \cup (IF n = Len(ScenarioArrays[1]) THEN {ScenarioArrays} ELSE {})

InitKernel ==
    /\ mp_count = 1
    /\ access_buffers = [k \in AccessSet |-> [dtype |-> "float32", data |-> <<1>>]]
    /\ comps = [c \in {1} |-> NoSelf]
    /\ status = [c \in {1} |-> "none"]
    /\ resources = [c \in {1} |-> <<>>]
    /\ compiled = <<>>
    /\ stream = <<>>
    /\ executed = 0
    /\ calls = [c \in {1} |-> 0]
    /\ retrieved = [c \in {1} |-> [k \in AccessSet |-> NoRetrieval]]
    /\ done = <<>>
    /\ writes = EmptyBag
    /\ \E n \in 1..MaxKernelN, gridDim \in 1..MaxGrid, blockDim \in 1..MaxBlock :
         \E a \in KernelArrays(n) :
            /\ mem = [q \in Pointers({1}) |->
                        IF q = InPtr(1, "V") THEN a[1]
                        ELSE IF q = InPtr(1, "Vd") THEN a[2]
                        ELSE IF q = ParamPtr(1, "weight") THEN a[3]
                        ELSE garray_empty(n)]
            /\ kernel = StartKernel(1, 1, NoFunc, gridDim, blockDim, n, 1, 1,
                            InPtr(1, "V"), InPtr(1, "Vd"), ParamPtr(1, "weight"),
                            DestPtr(1))

NextKernel ==
    \/ Lane
    \/ KernelEnd

SpecKernel == InitKernel /\ [][NextKernel]_vars


(***************************************************************************)
(* Properties.                                                             *)
(***************************************************************************)
\* the launches of component c issued so far, as positions of the stream
Launches(c) == {j \in 1..Len(stream) : stream[j].op = "launch" /\ stream[j].c = c}

Constructed == {c \in DOMAIN comps : status[c] = "ok"}

\* C1: a completed launch leaves I[i] = V[i] * Vd[i] * weight[i] in every cell
\* i of [0, num_comps), whatever the other cells hold and whatever the launch
\* geometry; the documented scenario gives I = [4, 10, 18].
C1_ElementwiseProduct ==
    \A j \in 1..Len(done) :
        LET d == done[j]
        IN  /\ Len(d.I) = d.num_comps
            /\ \A i \in 1..d.num_comps : d.I[i] = d.V[i] * d.Vd[i] * d.weight[i]
            /\ (<<d.V, d.Vd, d.weight>> = <<<<1, 2, 3>>, <<4, 5, 6>>, <<1, 1, 1>>>>
                   => d.I = <<4, 10, 18>>)

C1_Scenario ==
    \E j \in 1..Len(done) :
        /\ done[j].V = <<1, 2, 3>>
        /\ done[j].Vd = <<4, 5, 6>>
        /\ done[j].weight = <<1, 1, 1>>
        /\ done[j].I = <<4, 10, 18>>

\* C2: within one launch, whatever the grid and block size, no lane stores
\* outside [0, num_comps), no cell is stored to twice or by two lanes, and when
\* the launch completes every cell of [0, num_comps) has been stored to exactly
\* once.
C2_EachCellWrittenOnce ==
    /\ kernel.state = "run" =>
          \A pr \in BagToSet(writes) :
              /\ pr[2] \in 0..(kernel.num_comps - 1)
              /\ CopiesIn(pr, writes) = 1
              /\ \A pr2 \in BagToSet(writes) : pr2[2] = pr[2] => pr2 = pr
    /\ \A j \in 1..Len(done) :
          LET d == done[j]
          IN  /\ \A pr \in BagToSet(d.writes) : pr[2] \in 0..(d.num_comps - 1)
              /\ \A i \in 0..(d.num_comps - 1) :
                    /\ Cardinality({pr \in BagToSet(d.writes) : pr[2] = i}) = 1
                    /\ \A pr \in BagToSet(d.writes) :
                          pr[2] = i => CopiesIn(pr, d.writes) = 1

C2_StridedLaunchDone ==
    \E j \in 1..Len(done) :
        /\ done[j].gridDim * done[j].blockDim < done[j].num_comps
        /\ BagCardinality(done[j].writes) = done[j].num_comps

\* C3: every launch on the token is preceded on it by the retrieval of every
\* access for the same step, and while the kernel of step t runs every input
\* buffer was last filled by step t's retrieval and holds what it retrieved.
C3_RetrievalsBeforeLaunch ==
    /\ \A j \in 1..Len(stream) :
          stream[j].op = "launch" =>
              \A k \in AccessSet :
                  \E j2 \in 1..(j - 1) :
                      stream[j2] = RetrieveOp(stream[j].c, k, stream[j].step)
    /\ kernel.state = "run" =>
          \A k \in AccessSet :
              /\ retrieved[kernel.c][k].step = kernel.step
              /\ \A i \in 1..kernel.num_comps :
                    i <= Len(retrieved[kernel.c][k].up) =>
                        mem[InPtr(kernel.c, k)][i] = retrieved[kernel.c][k].up[i]

C3_SecondKernelRuns ==
    /\ kernel.state = "run"
    /\ kernel.step >= 2
    /\ \A k \in AccessSet : retrieved[kernel.c][k].step = kernel.step

\* C4: a constructed component has compiled exactly once, however many steps
\* it has run, and every launch it issued uses the function compiled at its
\* construction with the grid and block stored then.
C4_CompiledOncePerComponent ==
    \A c \in Constructed :
        /\ Cardinality({j \in 1..Len(compiled) : compiled[j].by = c}) = 1
        /\ comps[c].update_func.module \in 1..Len(compiled)
        /\ compiled[comps[c].update_func.module].by = c
        /\ \A j \in Launches(c) :
              /\ stream[j].func = comps[c].update_func
              /\ stream[j].grid = comps[c].update_func.grid
              /\ stream[j].block = comps[c].update_func.block

C4_TwoStepsIssued ==
    \E c \in Constructed :
        /\ Cardinality(Launches(c)) >= 2
        /\ Len(compiled) = 1

\* C5: no type signature is compiled more than once, however many components
\* are constructed with it.
C5_CompiledOncePerSignature ==
    \A i, j \in 1..Len(compiled) : compiled[i].source = compiled[j].source => i = j

\* C6: a construction that fails on an unmapped numeric type has allocated no
\* device resource.
C6_FailsBeforeAllocation ==
    \A c \in DOMAIN comps : status[c] = "failed" => resources[c] = <<>>

\* C7: no kernel runs for a step in which a retrieval met an upstream buffer
\* whose length differs from num_comps.
C7_MismatchStopsStep ==
    kernel.state = "run" =>
        \A k \in AccessSet : Len(retrieved[kernel.c][k].up) = kernel.num_comps

\* C8: the output of a completed step is the product of that step's inputs and
\* the parameter array alone; two successive steps that retrieved the same
\* upstream data under the same weights leave the same output; and num_comps,
\* nsteps = 1, the scaled time-step and the parameter array are as constructed.
C8_NoCarriedState ==
    /\ \A j \in 1..Len(done) :
          LET d == done[j]
          IN  /\ \A i \in 1..d.num_comps : d.I[i] = d.V[i] * d.Vd[i] * d.weight[i]
              /\ comps[d.c].num_comps = d.num_comps
              /\ comps[d.c].nsteps = 1
              /\ comps[d.c].ddt = comps[d.c].dt
              /\ mem[ParamPtr(d.c, "weight")] = d.weight
              /\ Len(d.weight) = d.num_comps
    /\ \A j \in 1..(Len(done) - 1) :
          (/\ done[j].c = done[j + 1].c
           /\ done[j].upV.up = done[j + 1].upV.up
           /\ done[j].upVd.up = done[j + 1].upVd.up
           /\ done[j].weight = done[j + 1].weight)
              => done[j].I = done[j + 1].I

C8_RepeatedStep ==
    /\ Len(done) >= 2
    /\ done[1].upV.up = done[2].upV.up
    /\ done[1].upVd.up = done[2].upVd.up
    /\ done[1].I = done[2].I
    /\ \A i \in 1..done[1].num_comps : done[1].I[i] # Uninit

\* the least q with q * b >= n
CeilDiv(n, b) == CHOOSE q \in 0..n : q * b >= n /\ (q - 1) * b < n

\* C9: a constructed component has block size 256 and grid size
\* min(6 * multiprocessor count, ceil(num_comps / 256)), which is at least 1
\* and at most 6 * multiprocessor count.
C9_LaunchGeometry ==
    \A c \in Constructed :
        LET g == comps[c].update_func.grid
        IN  /\ comps[c].update_func.block = <<256, 1, 1>>
            /\ g[2] = 1
            /\ g[1] = Min(6 * mp_count, CeilDiv(comps[c].num_comps, 256))
            /\ g[1] >= 1
            /\ g[1] <= 6 * mp_count

C9_GridCapped ==
    \E c \in Constructed :
        /\ CeilDiv(comps[c].num_comps, 256) > 6 * mp_count
        /\ comps[c].update_func.grid[1] = 6 * mp_count

\* C10: the prepared format is (int, scalar of the component's type, int)
\* followed by one pointer per access, parameter and update; every run_step
\* issues a launch with exactly those arguments in that order, bound to the
\* kernel's parameters num_comps, dt, steps, g_V, g_Vd, g_weight, g_I.
C10_ArgumentPacking ==
    \A c \in Constructed :
        LET f == comps[c].update_func.argfmt
        IN  /\ Len(f) = 3 + Len(accesses) + Len(params) + Len(updates)
            /\ f[1] = "i"
            /\ f[2] = (IF comps[c].dtype = "float32" THEN "f" ELSE "d")
            /\ f[3] = "i"
            /\ \A j \in 4..Len(f) : f[j] = "P"
            /\ Cardinality(Launches(c)) = calls[c]
            /\ \A j \in Launches(c) :
                  LET a == stream[j].args
                  IN  /\ Len(a) = Len(f)
                      /\ Len(a) = Len(KernelParams)
                      /\ Bound(a, "num_comps") = IntArg(comps[c].num_comps)
                      /\ Bound(a, "dt") = ScalarArg(comps[c].ddt * 1000)
                      /\ Bound(a, "steps") = IntArg(comps[c].nsteps)
                      /\ Bound(a, "g_V") = PtrArg(InPtr(c, "V"))
                      /\ Bound(a, "g_Vd") = PtrArg(InPtr(c, "Vd"))
                      /\ Bound(a, "g_weight") = PtrArg(ParamPtr(c, "weight"))
                      /\ Bound(a, "g_I").kind = "P"
                      /\ Bound(a, "g_I").ptr[1] = "dest"
                      /\ \A q \in 1..Len(a) :
                            a[q].kind = (IF f[q] \in {"f", "d"} THEN "s" ELSE f[q])

C10_LaunchIssued ==
    \E c \in Constructed :
        /\ comps[c].dtype = "float64"
        /\ Cardinality(Launches(c)) >= 1

====
